---- MODULE Spec2Model ----
(***************************************************************************)
(* State-machine model of the CacheDriver class of rxjs-cache-driver.      *)
(*                                                                         *)
(* src/index.js holds three revisions of the class:                        *)
(*   "key" : lines   5-197, (namespace, key) arguments, fallback function, *)
(*           detached refresh on a stale hit;                              *)
(*   "ops" : lines 203-415, options.operations adapter, fallback           *)
(*           Observable (publishLast/refCount), onError hook;              *)
(*   "id"  : lines 422-717, (namespace, id) arguments, source function,    *)
(*           setFilter / gzip / ttl, synchronous refresh on a stale hit.   *)
(* The revision is fixed at construction and kept in the variable rev.     *)
(*                                                                         *)
(* Every asynchronous boundary of the code (the storage adapter's          *)
(* Observables and the source's Observable) is a separate step, so calls   *)
(* interleave exactly where the code can suspend.                          *)
(***************************************************************************)
EXTENDS Integers, Sequences, FiniteSets, TLC

VARIABLES rev,     \* revision of the class that was constructed
          inst,    \* this.options, as the constructor leaves it
          now,     \* what Date.now() returns
          ticks,   \* number of clock advances so far
          store,   \* the storage behind the adapter: key -> stored record
          calls,   \* one record per call of a public method
          started  \* number of calls made so far

vars == <<rev, inst, now, ticks, store, calls, started>>

-----------------------------------------------------------------------------
(* Bounds of the model *)

MaxTicks == 1

\* the calls of a run, numbered in the order they are made; they overlap
Calls == {1, 2}

-----------------------------------------------------------------------------
(* JavaScript values: tagged tuples <<tag, payload>>. *)

\* string, number, null, undefined, boolean, function
Str(s)    == <<"s", s>>
Num(n)    == <<"n", n>>
Null      == <<"null">>
Undefined == <<"undef">>
Bool(b)   == <<"bool", b>>
Fn(name)  == <<"f", name>>

\* !v is false
Truthy(v) ==
    CASE v[1] = "s" -> v[2] # ""
      [] v[1] = "n" -> v[2] # 0
      [] v[1] = "bool" -> v[2]
      [] v[1] \in {"b", "f"} -> TRUE
      [] OTHER      -> FALSE

\* the values a source can emit: a plain value, the value the filter of the
\* tests rejects, and a falsy value
SourceValues == {Str("fresh"), Str("skip"), Num(0)}

\* JSON.stringify of a value: the JSON text, a JavaScript string
JSONstringify(v) ==
    CASE v[1] = "s" -> "\"" \o v[2] \o "\""
      [] v[1] = "n" -> ToString(v[2])
      [] OTHER      -> "null"

\* JSON.parse of a text: the value whose JSON text it is
JSONparse(t) ==
    CHOOSE v \in SourceValues \cup {Str("cached"), Null} : JSONstringify(v) = t

-----------------------------------------------------------------------------
(* Arguments *)

Revs       == {"key", "ops", "id"}
Namespaces == {"ns"}
Ids        == {"k1", "k2"}
NoArg      == ""    \* an argument that was not given: !arg holds

Keys == Namespaces \X (Ids \cup {NoArg})

\* the storage holds nothing for a key
NoRecord == [absent |-> TRUE]

-----------------------------------------------------------------------------
(* Options *)


\* a duration of q * 1000 + r milliseconds, 0 <= r < 1000 (the default ttl
\* does not fit a 32-bit integer as a number of milliseconds)
Dur(q, r) == <<"d", q, r>>

\* setFilter(v) for the two filters of the model
ApplyFilter(f, v) ==
    CASE f = Fn("all")     -> TRUE
      [] f = Fn("notSkip") -> v # Str("skip")

\* TtlStamp with Math.round for Math.floor
TtlStamp_round(t, ttl) == ttl[2] + ((t + ttl[3] + 500) \div 1000)

\* Math.floor((Date.now() + options.ttl) / 1000)
TtlStamp(t, ttl) == ttl[2] + ((t + ttl[3]) \div 1000)

\* the literal defaults of the constructors
DefaultTtrSeconds == 7200
DefaultTtr == 7200 * 1000
DefaultTtl == Dur(60 * 24 * 60 * 60, 0)

NoOptions ==
    [refresh |-> Undefined, ttr |-> Undefined, ttl |-> Undefined,
     setFilter |-> Undefined, gzip |-> Undefined, onError |-> Undefined,
     json |-> Undefined]

\* {...a, ...b} and Object.assign({}, a, b)
Merge(a, b) ==
    [f \in DOMAIN a |-> IF b[f] = Undefined THEN a[f] ELSE b[f]]

\* the options a caller hands to the constructor
CtorOptions(r) ==
    CASE r = "key" -> {NoOptions}
      [] r = "ops" -> {[NoOptions EXCEPT !.onError = e] :
                          e \in {Undefined, Fn("onError")}}
      [] r = "id"  -> {[NoOptions EXCEPT !.gzip = g] :
                          g \in {Undefined, Bool(TRUE)}}
                         \cup {[NoOptions EXCEPT !.ttr = Num(0)],
                               [NoOptions EXCEPT !.ttl = Dur(0, 1)],
                               [NoOptions EXCEPT !.setFilter = Fn("notSkip")]}

\* this.options after the constructor
Constructor(r, o) ==
    IF r = "id"
    THEN [o EXCEPT !.setFilter = Fn("all"), !.ttr = Num(DefaultTtr),
                   !.ttl = DefaultTtl]
    ELSE Merge([NoOptions EXCEPT !.ttr = Num(DefaultTtrSeconds)], o)

\* a ttr option longer than any time the clock of the model shows: seconds in
\* the key revision, milliseconds in the id revision
LongTtr(r) == IF r = "id" THEN 4 * DefaultTtr ELSE 4 * DefaultTtrSeconds

\* the per-call options a caller hands to get
GetOptions(r) ==
    CASE r = "key" -> {NoOptions,
                       [NoOptions EXCEPT !.refresh = Bool(TRUE)],
                       [NoOptions EXCEPT !.ttr = Num(0)],
                       [NoOptions EXCEPT !.ttr = Num(LongTtr(r))]}
      [] r = "ops" -> {NoOptions}
      [] r = "id"  -> {NoOptions,
                       [NoOptions EXCEPT !.refresh = Bool(TRUE)],
                       [NoOptions EXCEPT !.ttr = Num(0)],
                       [NoOptions EXCEPT !.ttr = Num(LongTtr(r))],
                       [NoOptions EXCEPT !.setFilter = Fn("notSkip")],
                       [NoOptions EXCEPT !.setFilter = Null],
                       [NoOptions EXCEPT !.ttl = Dur(0, 1)],
                       [NoOptions EXCEPT !.gzip = Bool(TRUE)]}

-----------------------------------------------------------------------------
(* Codec of the "id" revision *)

GzipMagic == <<31, 139, 8>>

\* a Buffer: its first bytes, and the text its bytes encode or, for a gzip
\* stream, the text its body inflates to
Buffer(head, body) == <<"b", head, body>>

\* Buffer.from(t) for a text of the model that is a run of at least three
\* "x" (byte 120)
BufferFrom(t) == Buffer(<<120, 120, 120>>, t)

\* the text whose bytes zlib.gzip is handed: that of a string, or of a Buffer
\* made from a text
Bytes(v) == IF v[1] = "b" THEN v[3] ELSE v[2]

\* Buffer.byteLength of a string, or of a Buffer made from a text (ASCII only)
ByteLength(v) == Len(Bytes(v))

\* _gzip compressing from the threshold on
_gzip_atLeast(data) ==
    IF data.value[1] \notin {"s", "b"}
    THEN [error |-> "value must be string or Buffer."]
    ELSE LET g == inst.gzip
             compress ==
                 CASE g[1] = "bool" -> g[2]
                   [] g[1] = "n"    -> ByteLength(data.value) >= g[2] * 1000
                   [] OTHER         -> FALSE
         IN  IF compress
             THEN [error |-> "",
                   data |-> [data EXCEPT !.value = Buffer(GzipMagic, Bytes(data.value))]]
             ELSE [error |-> "", data |-> data]

\* _gzip: the record with its value compressed per this.options.gzip, or an
\* error for a value that is neither string nor Buffer
_gzip(data) ==
    IF data.value[1] \notin {"s", "b"}
    THEN [error |-> "value must be string or Buffer."]
    ELSE LET g == inst.gzip
             compress ==
                 CASE g[1] = "bool" -> g[2]
                   [] g[1] = "n"    -> ByteLength(data.value) > g[2] * 1000
                   [] OTHER         -> FALSE
         IN  IF compress
             THEN [error |-> "",
                   data |-> [data EXCEPT !.value = Buffer(GzipMagic, Bytes(data.value))]]
             ELSE [error |-> "", data |-> data]

\* HasMagic testing the first two bytes only
HasMagic_two(v) ==
    /\ v[1] = "b"
    /\ Len(v[2]) >= 2
    /\ v[2][1] = 31
    /\ v[2][2] = 139

\* the test of _gunzip: a Buffer of at least three bytes that starts with
\* 1f 8b 08
HasMagic(v) ==
    /\ v[1] = "b"
    /\ Len(v[2]) >= 3
    /\ v[2][1] = 31
    /\ v[2][2] = 139
    /\ v[2][3] = 8

\* a Buffer that starts with the gzip magic and is no gzip stream: the body
\* of the model is the empty text, which _gzip never produces (a JSON text
\* is never empty)
Malformed(v) == HasMagic(v) /\ v[3] = ""

\* the error zlib.gunzip hands to _gunzip for the value of data, or ""
GunzipError(data) ==
    IF "value" \in DOMAIN data /\ Malformed(data.value)
    THEN "incorrect header check"
    ELSE ""

\* _gunzip: a Buffer with the gzip magic is inflated to text, anything else
\* passes through
_gunzip(data) ==
    IF "value" \in DOMAIN data /\ HasMagic(data.value)
    THEN [data EXCEPT !.value = Str(data.value[3])]
    ELSE data

-----------------------------------------------------------------------------
(* Calls *)

\* a call of a public method that has not been made yet
NoCall ==
    [op      |-> "none",     \* get, del, markToRefresh or clear
     ns      |-> NoArg,      \* args.namespace
     id      |-> NoArg,      \* args.id (args.key in the key revisions)
     opt     |-> NoOptions,  \* the merged options of the call
     pc      |-> "idle",     \* what the pipeline the caller subscribed to awaits
     bg      |-> "none",     \* what the detached pipeline of the call awaits
     out     |-> <<>>,       \* the values delivered to the caller
     end     |-> "open",     \* open, complete or error: how the caller's stream ended
     err     |-> "",         \* the error delivered to the caller
     seen    |-> "none",     \* what the storage read of get gave: miss, fresh, stale,
                             \* or fault when Date.now() threw on the record
     cached  |-> Undefined,  \* the decoded value get read from storage
     val     |-> Undefined,  \* the value the source emitted to this call
     at      |-> 0,          \* Date.now() when _set built the record
     wres    |-> "none",     \* how the storage set of the call ended: acked, failed
     acks    |-> 0,          \* acknowledgements its storage set emitted to a subscriber
     srcs    |-> 0,          \* source invocations
     gets    |-> <<>>,       \* arguments of the storage get calls
     sets    |-> <<>>,       \* arguments of the storage set calls
     dels    |-> <<>>,       \* arguments of the storage del calls
     clears  |-> <<>>,       \* arguments of the storage clear calls
     reports |-> <<>>,       \* errors handed to onError
     prior   |-> {}]         \* the calls that had ended when this call was made

Ack == Str("ack")

\* the caller's stream ends with error e
Throw(call, e) == [call EXCEPT !.pc = "done", !.end = "error", !.err = e]

\* the caller's stream completes
Complete(call) == [call EXCEPT !.pc = "done", !.end = "complete"]

\* n copies of value v are delivered to the caller
Emit(call, v, n) ==
    [call EXCEPT !.out = @ \o [i \in 1 .. n |-> v]]

\* if (typeof this.options.onError === 'function') this.options.onError(err)
OnError(call, e) ==
    IF inst.onError[1] = "f" THEN [call EXCEPT !.reports = Append(@, e)] ELSE call

\* source(args) is invoked and the pipeline the caller subscribed to waits
\* for it
InvokeSource(call) == [call EXCEPT !.srcs = @ + 1, !.pc = "source"]

\* source(args) is invoked by a detached pipeline
InvokeSourceDetached(call) == [call EXCEPT !.srcs = @ + 1, !.bg = "source"]

\* the text the key revisions store: JSON.stringify of an envelope
Text(obj) == [text |-> obj]

\* _set leaving createdAt at 0
SetId_unstamped(call, v) ==
    IF call.ns = NoArg THEN Throw(call, "No namespace provided.")
    ELSE IF ~Truthy(v) THEN Complete(call)
    ELSE LET z == _gzip([namespace |-> call.ns, id |-> call.id,
                         value |-> Str(JSONstringify(v))])
         IN  IF z.error # "" THEN Throw(call, z.error)
             ELSE [call EXCEPT
                     !.at = now,
                     !.sets = Append(@,
                         [namespace |-> z.data.namespace,
                          id        |-> z.data.id,
                          value     |-> z.data.value,
                          createdAt |-> 0,
                          ttl       |-> TtlStamp(now, call.opt.ttl)]),
                     !.pc = "write"]

\* _set without the test of a falsy value
SetId_writesFalsy(call, v) ==
    IF call.ns = NoArg THEN Throw(call, "No namespace provided.")
    ELSE LET z == _gzip([namespace |-> call.ns, id |-> call.id,
                         value |-> Str(JSONstringify(v))])
         IN  IF z.error # "" THEN Throw(call, z.error)
             ELSE [call EXCEPT
                     !.at = now,
                     !.sets = Append(@,
                         [namespace |-> z.data.namespace,
                          id        |-> z.data.id,
                          value     |-> z.data.value,
                          createdAt |-> now,
                          ttl       |-> TtlStamp(now, call.opt.ttl)]),
                     !.pc = "write"]

\* _set of the id revision, called with value v: the call after the
\* synchronous part of _set (validation, JSON, gzip, options.set)
SetId(call, v) ==
    IF call.ns = NoArg THEN Throw(call, "No namespace provided.")
    ELSE IF ~Truthy(v) THEN Complete(call)
    ELSE LET z == _gzip([namespace |-> call.ns, id |-> call.id,
                         value |-> Str(JSONstringify(v))])
         IN  IF z.error # "" THEN Throw(call, z.error)
             ELSE [call EXCEPT
                     !.at = now,
                     !.sets = Append(@,
                         [namespace |-> z.data.namespace,
                          id        |-> z.data.id,
                          value     |-> z.data.value,
                          createdAt |-> now,
                          ttl       |-> TtlStamp(now, call.opt.ttl)]),
                     !.pc = "write"]

\* _set of the key revisions, subscribed by publish().connect(): storage set
\* is called unless the value is falsy, and nobody observes the outcome
SetKeyDetached(call, v) ==
    IF ~Truthy(v) THEN [call EXCEPT !.bg = "done"]
    ELSE [call EXCEPT
            !.at = now,
            !.sets = Append(@,
                [namespace |-> call.ns,
                 key       |-> call.id,
                 value     |-> Text([namespace |-> call.ns, key |-> call.id,
                                     value |-> v, createdAt |-> now])]),
            !.bg = "write"]

-----------------------------------------------------------------------------
(* Construction *)

StartTime == 7200999

\* the clock advances by a whole default ttr
ClockSteps == {DefaultTtr}

\* what an earlier get stored under id for the value "cached" at StartTime
Cached(id) ==
    IF rev = "id"
    THEN [namespace |-> "ns", id |-> id, value |-> Str(JSONstringify(Str("cached"))),
          createdAt |-> StartTime, ttl |-> TtlStamp(StartTime, DefaultTtl)]
    ELSE Text([namespace |-> "ns", key |-> id, value |-> Str("cached"),
               createdAt |-> StartTime])

\* a record of the id revision whose value has the gzip magic and does not
\* inflate
Corrupt(id) ==
    [namespace |-> "ns", id |-> id, value |-> Buffer(GzipMagic, ""),
     createdAt |-> StartTime, ttl |-> TtlStamp(StartTime, DefaultTtl)]

\* the storage at construction: the second key, which no call of the model
\* names, holds a record; the first key holds one or nothing, or in the id
\* revision a record with a malformed compressed value
InitialStores ==
    LET other == [k \in Keys |-> IF k = <<"ns", "k2">> THEN Cached("k2") ELSE NoRecord]
    IN  {other, [other EXCEPT ![<<"ns", "k1">>] = Cached("k1")]}
            \cup (IF rev = "id"
                  THEN {[other EXCEPT ![<<"ns", "k1">>] = Corrupt("k1")]}
                  ELSE {})

Init ==
    /\ rev \in Revs
    /\ \E o \in CtorOptions(rev) : inst = Constructor(rev, o)
    /\ now = StartTime
    /\ ticks = 0
    /\ store \in InitialStores
    /\ calls = [c \in Calls |-> NoCall]
    /\ started = 0

Tick ==
    /\ ticks < MaxTicks
    /\ \E d \in ClockSteps : now' = now + d
    /\ ticks' = ticks + 1
    /\ UNCHANGED <<rev, inst, store, calls, started>>

Key(call) == <<call.ns, call.id>>

\* the arguments callers pass: the first key, complete and with each part missing
Args == {<<"ns", "k1">>, <<NoArg, "k1">>, <<"ns", NoArg>>}

\* call c is the next call to be made
Ready(c) ==
    /\ calls[c].op = "none"
    /\ c = started + 1

\* the calls whose pipelines have all ended
Ended == {d \in Calls : calls[d].pc = "done" /\ calls[d].bg \in {"none", "done"}}

\* the call as it is made now
Made(call) == [call EXCEPT !.prior = Ended]

-----------------------------------------------------------------------------
(* get *)

\* get without the test of options.refresh
Get_noRefresh(call, ns, id, fn, o) ==
    LET opt == IF rev = "ops" THEN inst ELSE Merge(inst, o)
        c0  == [NoCall EXCEPT !.op = "get", !.ns = ns, !.id = id, !.opt = opt]
        rd  == [c0 EXCEPT !.gets = Append(@, <<ns, id>>), !.pc = "read"]
    IN  CASE rev = "key" ->
               IF ns = NoArg THEN Throw(c0, "No namespace provided.")
               ELSE IF id = NoArg THEN Throw(c0, "No key provided.")
               ELSE IF ~fn THEN Throw(c0, "Fallback must be a function which returns an Observable.")
               ELSE rd
          [] rev = "ops" ->
               IF ns = NoArg THEN Throw(c0, "No namespace provided.")
               ELSE IF id = NoArg THEN Throw(c0, "No key provided.")
               ELSE IF ~fn THEN Throw(c0, "Fallback must be instance of Observable.")
               ELSE rd
          [] rev = "id" ->
               IF ns = NoArg THEN Throw(c0, "No namespace provided.")
               ELSE IF ~fn THEN Throw(c0, "Source must be a function which returns an Observable.")
               ELSE rd

\* get without the test of its second argument
Get_noSourceCheck(call, ns, id, fn, o) ==
    LET opt == IF rev = "ops" THEN inst ELSE Merge(inst, o)
        c0  == [NoCall EXCEPT !.op = "get", !.ns = ns, !.id = id, !.opt = opt]
        rd  == [c0 EXCEPT !.gets = Append(@, <<ns, id>>), !.pc = "read"]
    IN  CASE rev = "key" ->
               IF ns = NoArg THEN Throw(c0, "No namespace provided.")
               ELSE IF id = NoArg THEN Throw(c0, "No key provided.")
               ELSE IF Truthy(opt.refresh) THEN InvokeSource(c0)
               ELSE rd
          [] rev = "ops" ->
               IF ns = NoArg THEN Throw(c0, "No namespace provided.")
               ELSE IF id = NoArg THEN Throw(c0, "No key provided.")
               ELSE rd
          [] rev = "id" ->
               IF ns = NoArg THEN Throw(c0, "No namespace provided.")
               ELSE IF Truthy(opt.refresh) THEN InvokeSource(c0)
               ELSE rd

\* the synchronous part of get(args, source, options): fn tells whether the
\* second argument is what the revision requires (a function, or an
\* Observable in the ops revision)
Get(call, ns, id, fn, o) ==
    LET opt == IF rev = "ops" THEN inst ELSE Merge(inst, o)
        c0  == [NoCall EXCEPT !.op = "get", !.ns = ns, !.id = id, !.opt = opt]
        rd  == [c0 EXCEPT !.gets = Append(@, <<ns, id>>), !.pc = "read"]
    IN  CASE rev = "key" ->
               IF ns = NoArg THEN Throw(c0, "No namespace provided.")
               ELSE IF id = NoArg THEN Throw(c0, "No key provided.")
               ELSE IF ~fn THEN Throw(c0, "Fallback must be a function which returns an Observable.")
               ELSE IF Truthy(opt.refresh) THEN InvokeSource(c0)
               ELSE rd
          [] rev = "ops" ->
               IF ns = NoArg THEN Throw(c0, "No namespace provided.")
               ELSE IF id = NoArg THEN Throw(c0, "No key provided.")
               ELSE IF ~fn THEN Throw(c0, "Fallback must be instance of Observable.")
               ELSE rd
          [] rev = "id" ->
               IF ns = NoArg THEN Throw(c0, "No namespace provided.")
               ELSE IF ~fn THEN Throw(c0, "Source must be a function which returns an Observable.")
               ELSE IF Truthy(opt.refresh) THEN InvokeSource(c0)
               ELSE rd

\* what callers pass to get: every option set with the complete arguments
\* and a proper source, and the default options with an incomplete argument
\* or with something that is not a source
GetInputs ==
    ({<<"ns", "k1">>} \X {TRUE} \X GetOptions(rev))
        \cup (Args \X BOOLEAN \X {NoOptions})

\* CallGet assigning the merged options to this.options
CallGet_assign(c) ==
    /\ Ready(c)
    /\ \E i \in GetInputs :
          /\ calls' = [calls EXCEPT ![c] =
                         Made(Get(calls[c], i[1][1], i[1][2], i[2], i[3]))]
          /\ inst' = IF rev = "ops" THEN inst ELSE Merge(inst, i[3])
    /\ started' = started + 1
    /\ UNCHANGED <<rev, now, ticks, store>>

CallGet(c) ==
    /\ Ready(c)
    /\ \E i \in GetInputs :
          calls' = [calls EXCEPT ![c] =
                       Made(Get(calls[c], i[1][1], i[1][2], i[2], i[3]))]
    /\ started' = started + 1
    /\ UNCHANGED <<rev, inst, now, ticks, store>>

\* what the adapter's get can emit for a key: the stored record, or for an
\* absent record nothing or null
ReadResponses(k) ==
    IF store[k] = NoRecord THEN {<<"empty">>, Null} ELSE {<<"value", store[k]>>}

\* _get: the adapter's response decoded to {value, createdAt}, with the
\* defaults of get's destructuring for the empty object
Decode(resp) ==
    IF resp \in {<<"empty">>, Null}
    THEN [value |-> Null, createdAt |-> 0]
    ELSE IF rev = "id"
    THEN LET r == _gunzip(resp[2])
         IN  [value     |-> IF Truthy(r.value) THEN JSONparse(r.value[2]) ELSE r.value,
              createdAt |-> r.createdAt]
    ELSE [value |-> resp[2].text.value, createdAt |-> resp[2].text.createdAt]

\* the comparison of Expired turned around
Expired_flipped(createdAt, ttr) ==
    IF rev = "id" THEN now - createdAt <= ttr[2]
                  ELSE now - createdAt <= ttr[2] * 1000

\* Date.now() - createdAt >= ttr, the ttr in seconds in the key revisions
Expired(createdAt, ttr) ==
    IF rev = "id" THEN now - createdAt >= ttr[2]
                  ELSE now - createdAt >= ttr[2] * 1000

\* AfterRead detaching the refresh on a stale hit in every revision
AfterRead_detached(call, rec) ==
    IF ~Truthy(rec.value)
    THEN InvokeSource([call EXCEPT !.seen = "miss"])
    ELSE IF Expired(rec.createdAt, call.opt.ttr)
    THEN Complete(Emit(InvokeSourceDetached(
             [call EXCEPT !.seen = "stale", !.cached = rec.value]), rec.value, 1))
    ELSE Complete(Emit([call EXCEPT !.seen = "fresh", !.cached = rec.value],
                       rec.value, 1))

\* AfterRead returning the pipeline of the refresh on a stale hit in every
\* revision
AfterRead_sync(call, rec) ==
    IF ~Truthy(rec.value)
    THEN InvokeSource([call EXCEPT !.seen = "miss"])
    ELSE IF Expired(rec.createdAt, call.opt.ttr)
    THEN InvokeSource([call EXCEPT !.seen = "stale", !.cached = rec.value])
    ELSE Complete(Emit([call EXCEPT !.seen = "fresh", !.cached = rec.value],
                       rec.value, 1))

\* AfterRead answering a stale hit from the cache without any refresh
AfterRead_noRefresh(call, rec) ==
    IF ~Truthy(rec.value)
    THEN InvokeSource([call EXCEPT !.seen = "miss"])
    ELSE IF Expired(rec.createdAt, call.opt.ttr)
    THEN Complete(Emit([call EXCEPT !.seen = "stale", !.cached = rec.value],
                       rec.value, 1))
    ELSE Complete(Emit([call EXCEPT !.seen = "fresh", !.cached = rec.value],
                       rec.value, 1))

\* the mergeMap of get applied to the decoded record
AfterRead(call, rec) ==
    IF ~Truthy(rec.value)
    THEN InvokeSource([call EXCEPT !.seen = "miss"])
    ELSE IF Expired(rec.createdAt, call.opt.ttr)
    THEN LET c1 == [call EXCEPT !.seen = "stale", !.cached = rec.value]
         IN  IF rev = "id"
             THEN InvokeSource(c1)
             ELSE Complete(Emit(InvokeSourceDetached(c1), rec.value, 1))
    ELSE Complete(Emit([call EXCEPT !.seen = "fresh", !.cached = rec.value],
                       rec.value, 1))

\* the response counts as a record (!response is false) of the id revision
\* that _gunzip fails on
Undecodable(resp) ==
    /\ rev = "id"
    /\ resp \notin {<<"empty">>, Null}
    /\ GunzipError(resp[2]) # ""

\* ReadResult taking a response that does not inflate for a miss
ReadResult_miss(call, resp) ==
    IF Undecodable(resp)
    THEN AfterRead(call, Decode(<<"empty">>))
    ELSE AfterRead(call, Decode(resp))

\* the pipeline of get at the adapter's response: the error of _gunzip goes
\* to the caller, anything else is decoded and handed to the mergeMap of get
ReadResult(call, resp) ==
    IF Undecodable(resp)
    THEN Throw(call, GunzipError(resp[2]))
    ELSE AfterRead(call, Decode(resp))

StorageGetResponds(c) ==
    /\ calls[c].op = "get"
    /\ calls[c].pc = "read"
    /\ \E resp \in ReadResponses(Key(calls[c])) :
          calls' = [calls EXCEPT ![c] = ReadResult(calls[c], resp)]
    /\ UNCHANGED <<rev, inst, now, ticks, store, started>>

\* StorageGetFails handing the error to the caller in every revision
StorageGetFails_throws(c) ==
    /\ calls[c].op = "get"
    /\ calls[c].pc = "read"
    /\ calls' = [calls EXCEPT ![c] = Throw(calls[c], "storage get")]
    /\ UNCHANGED <<rev, inst, now, ticks, store, started>>

\* StorageGetFails catching the error in every revision
StorageGetFails_degrades(c) ==
    /\ calls[c].op = "get"
    /\ calls[c].pc = "read"
    /\ calls' = [calls EXCEPT ![c] =
          AfterRead(OnError(calls[c], "storage get"), Decode(<<"empty">>))]
    /\ UNCHANGED <<rev, inst, now, ticks, store, started>>

\* the adapter's get fails: only the ops revision catches the error in _get
StorageGetFails(c) ==
    /\ calls[c].op = "get"
    /\ calls[c].pc = "read"
    /\ calls' = [calls EXCEPT ![c] =
          IF rev = "ops"
          THEN AfterRead(OnError(calls[c], "storage get"),
                         Decode(<<"empty">>))
          ELSE Throw(calls[c], "storage get")]
    /\ UNCHANGED <<rev, inst, now, ticks, store, started>>

\* ClockFaults handing the fault to the catch of get in every revision
ClockFaults_caught(c) ==
    /\ calls[c].op = "get"
    /\ calls[c].pc = "read"
    /\ store[Key(calls[c])] # NoRecord
    /\ Truthy(Decode(<<"value", store[Key(calls[c])]>>).value)
    /\ calls' = [calls EXCEPT ![c] =
          [OnError(calls[c], "clock") EXCEPT !.seen = "fault", !.srcs = @ + 1,
                                             !.pc = "replay"]]
    /\ UNCHANGED <<rev, inst, now, ticks, store, started>>

\* Date.now() throws while the mergeMap of get evaluates the staleness of a
\* stored record: the catch of get in the ops revision reports the fault and
\* returns fallbackReplay, which subscribes the fallback; the other revisions
\* have no catch
ClockFaults(c) ==
    /\ calls[c].op = "get"
    /\ calls[c].pc = "read"
    /\ store[Key(calls[c])] # NoRecord
    /\ Truthy(Decode(<<"value", store[Key(calls[c])]>>).value)
    /\ calls' = [calls EXCEPT ![c] =
          IF rev = "ops"
          THEN [OnError(calls[c], "clock") EXCEPT !.seen = "fault", !.srcs = @ + 1,
                                                  !.pc = "replay"]
          ELSE Throw([calls[c] EXCEPT !.seen = "fault"], "clock")]
    /\ UNCHANGED <<rev, inst, now, ticks, store, started>>

-----------------------------------------------------------------------------
(* The source *)

\* sourceAndSet without the setFilter test
SourceAndSet_noFilter(call, v) == SetId([call EXCEPT !.val = v], v)

\* sourceAndSet delivering v before the write
SourceAndSet_emitsFirst(call, v) ==
    LET c1 == [call EXCEPT !.val = v,
                 !.opt.setFilter = IF @[1] = "f" THEN @ ELSE Fn("all")]
    IN  IF ApplyFilter(c1.opt.setFilter, v)
        THEN SetId(Emit(c1, v, 1), v)
        ELSE Complete(Emit(c1, v, 1))

\* sourceAndSet of the id revision, at the source's emission of v
SourceAndSet(call, v) ==
    LET c1 == [call EXCEPT !.val = v,
                 !.opt.setFilter = IF @[1] = "f" THEN @ ELSE Fn("all")]
    IN  IF ApplyFilter(c1.opt.setFilter, v)
        THEN SetId(c1, v)
        ELSE Complete(Emit(c1, v, 1))

\* fallbackAndSet of the key revisions, at the fallback's emission of v to the
\* pipeline the caller subscribed to: the write is detached, v is delivered
FallbackAndSet(call, v) ==
    Complete(Emit(SetKeyDetached([call EXCEPT !.val = v], v), v, 1))

\* fallbackReplay returned by the catch of get, at the fallback's emission
\* of v: v is delivered, nothing is written
Replay(call, v) == Complete(Emit([call EXCEPT !.val = v], v, 1))

SourceEmits(c) ==
    /\ calls[c].op = "get"
    /\ \/ calls[c].pc \in {"source", "replay"}
       \/ calls[c].bg = "source"
    /\ \E v \in SourceValues :
          calls' = [calls EXCEPT ![c] =
              CASE calls[c].pc = "replay" -> Replay(calls[c], v)
                [] calls[c].bg = "source" ->
                     SetKeyDetached([calls[c] EXCEPT !.val = v], v)
                [] rev = "id" -> SourceAndSet(calls[c], v)
                [] OTHER      -> FallbackAndSet(calls[c], v)]
    /\ UNCHANGED <<rev, inst, now, ticks, store, started>>

\* SourceFails with the catch of the ops revision subscribing the fallback
\* once more
SourceFails_resubscribes(c) ==
    /\ calls[c].op = "get"
    /\ \/ calls[c].pc \in {"source", "replay"}
       \/ calls[c].bg = "source"
    /\ calls' = [calls EXCEPT ![c] =
          CASE calls[c].pc = "replay" -> Throw(calls[c], "source")
            [] calls[c].bg = "source" -> [calls[c] EXCEPT !.bg = "done"]
            [] rev = "ops" ->
                 [OnError(calls[c], "source") EXCEPT !.srcs = @ + 1, !.pc = "replay"]
            [] OTHER -> Throw(calls[c], "source")]
    /\ UNCHANGED <<rev, inst, now, ticks, store, started>>

\* the source fails: a detached pipeline drops the error; the catch of the
\* ops revision reports it and returns fallbackReplay, whose stopped subject
\* replays the same error to the caller without subscribing the fallback again
SourceFails(c) ==
    /\ calls[c].op = "get"
    /\ \/ calls[c].pc \in {"source", "replay"}
       \/ calls[c].bg = "source"
    /\ calls' = [calls EXCEPT ![c] =
          CASE calls[c].pc = "replay" -> Throw(calls[c], "source")
            [] calls[c].bg = "source" -> [calls[c] EXCEPT !.bg = "done"]
            [] rev = "ops" -> Throw(OnError(calls[c], "source"), "source")
            [] OTHER -> Throw(calls[c], "source")]
    /\ UNCHANGED <<rev, inst, now, ticks, store, started>>

-----------------------------------------------------------------------------
(* The storage adapter's set *)

\* the number of acknowledgements the adapter's set emits before completing
AckCounts == {0, 1, 2}

Last(q) == q[Len(q)]

\* the storage after the adapter applied set with the given arguments
Stored(rec) ==
    IF rev = "id"
    THEN [store EXCEPT ![<<rec.namespace, rec.id>>] = rec]
    ELSE [store EXCEPT ![<<rec.namespace, rec.key>>] = rec.value]

Writing(call) == call.pc = "write" \/ call.bg = "write"

\* the pipeline of a call after n acknowledgements of its storage write
AfterWrite(call, n) ==
    CASE call.bg = "write" -> [call EXCEPT !.bg = "done", !.wres = "acked"]
      [] call.op = "get"   ->
           Complete(Emit([call EXCEPT !.wres = "acked", !.acks = n], call.val, n))
      [] OTHER             ->
           Complete(Emit([call EXCEPT !.wres = "acked", !.acks = n], Ack, n))

\* StorageSetAcks with the write of markToRefresh marking the record the
\* storage holds at the write
StorageSetAcks_keepsNewer(c) ==
    /\ Writing(calls[c])
    /\ store' =
          IF calls[c].op = "markToRefresh" /\ store[<<calls[c].ns, calls[c].id>>] # NoRecord
          THEN [store EXCEPT ![<<calls[c].ns, calls[c].id>>] =
                   IF rev = "id" THEN [@ EXCEPT !.createdAt = 0]
                   ELSE [text |-> [@.text EXCEPT !.createdAt = 0]]]
          ELSE Stored(Last(calls[c].sets))
    /\ \E n \in AckCounts :
          calls' = [calls EXCEPT ![c] = AfterWrite(calls[c], n)]
    /\ UNCHANGED <<rev, inst, now, ticks, started>>

StorageSetAcks(c) ==
    /\ Writing(calls[c])
    /\ store' = Stored(Last(calls[c].sets))
    /\ \E n \in AckCounts :
          calls' = [calls EXCEPT ![c] = AfterWrite(calls[c], n)]
    /\ UNCHANGED <<rev, inst, now, ticks, started>>

\* StorageSetFails with _set of the ops revision dropping the error
StorageSetFails_silent(c) ==
    /\ Writing(calls[c])
    /\ calls' = [calls EXCEPT ![c] =
          CASE calls[c].bg = "write" -> [calls[c] EXCEPT !.bg = "done", !.wres = "failed"]
            [] OTHER -> Throw([calls[c] EXCEPT !.wres = "failed"], "storage set")]
    /\ UNCHANGED <<rev, inst, now, ticks, store, started>>

\* the adapter's set fails: a detached write of the key revision drops the
\* error, _set of the ops revision catches and reports it, everything else
\* hands it to the caller
StorageSetFails(c) ==
    /\ Writing(calls[c])
    /\ calls' = [calls EXCEPT ![c] =
          CASE calls[c].bg = "write" /\ rev = "ops" /\ calls[c].op = "get" ->
                 [OnError(calls[c], "storage set") EXCEPT !.bg = "done", !.wres = "failed"]
            [] calls[c].bg = "write" -> [calls[c] EXCEPT !.bg = "done", !.wres = "failed"]
            [] OTHER -> Throw([calls[c] EXCEPT !.wres = "failed"], "storage set")]
    /\ UNCHANGED <<rev, inst, now, ticks, store, started>>

-----------------------------------------------------------------------------
(* del, markToRefresh, clear *)

\* the validation shared by del and markToRefresh: the error, or ""
Validate(ns, id) ==
    IF ns = NoArg THEN "No namespace provided."
    ELSE IF rev # "id" /\ id = NoArg THEN "No key provided."
    ELSE ""

\* del handing only the namespace to the adapter
CallDel_noId(c) ==
    /\ Ready(c)
    /\ started' = started + 1
    /\ \E a \in Args :
          LET ns == a[1]
              id == a[2]
              c0 == [NoCall EXCEPT !.op = "del", !.ns = ns, !.id = id]
          IN  calls' = [calls EXCEPT ![c] = Made(
                  IF Validate(ns, id) # "" THEN Throw(c0, Validate(ns, id))
                  ELSE [c0 EXCEPT !.dels = Append(@, <<ns, NoArg>>), !.pc = "del"])]
    /\ UNCHANGED <<rev, inst, now, ticks, store>>

CallDel(c) ==
    /\ Ready(c)
    /\ started' = started + 1
    /\ \E a \in Args :
          LET ns == a[1]
              id == a[2]
              c0 == [NoCall EXCEPT !.op = "del", !.ns = ns, !.id = id]
          IN  calls' = [calls EXCEPT ![c] = Made(
                  IF Validate(ns, id) # "" THEN Throw(c0, Validate(ns, id))
                  ELSE [c0 EXCEPT !.dels = Append(@, <<ns, id>>), !.pc = "del"])]
    /\ UNCHANGED <<rev, inst, now, ticks, store>>

\* StorageDelResponds removing every record of the namespace
StorageDelResponds_namespace(c) ==
    /\ calls[c].pc = "del"
    /\ store' = [k \in Keys |->
                   IF k[1] = Last(calls[c].dels)[1] THEN NoRecord ELSE store[k]]
    /\ calls' = [calls EXCEPT ![c] = Complete(Emit(calls[c], Ack, 1))]
    /\ UNCHANGED <<rev, inst, now, ticks, started>>

\* StorageDelResponds ending the writes in flight
StorageDelResponds_cancels(c) ==
    /\ calls[c].pc = "del"
    /\ store' = [store EXCEPT ![Last(calls[c].dels)] = NoRecord]
    /\ calls' = [d \in Calls |->
          IF d = c THEN Complete(Emit(calls[c], Ack, 1))
          ELSE IF calls[d].pc = "write" THEN Complete(calls[d])
          ELSE IF calls[d].bg = "write" THEN [calls[d] EXCEPT !.bg = "done"]
          ELSE calls[d]]
    /\ UNCHANGED <<rev, inst, now, ticks, started>>

StorageDelResponds(c) ==
    /\ calls[c].pc = "del"
    /\ store' = [store EXCEPT ![Last(calls[c].dels)] = NoRecord]
    /\ calls' = [calls EXCEPT ![c] = Complete(Emit(calls[c], Ack, 1))]
    /\ UNCHANGED <<rev, inst, now, ticks, started>>

CallMarkToRefresh(c) ==
    /\ Ready(c)
    /\ started' = started + 1
    /\ \E a \in Args :
          LET ns == a[1]
              id == a[2]
              c0 == [NoCall EXCEPT !.op = "markToRefresh", !.ns = ns, !.id = id]
          IN  calls' = [calls EXCEPT ![c] = Made(
                  IF Validate(ns, id) # "" THEN Throw(c0, Validate(ns, id))
                  ELSE [c0 EXCEPT !.gets = Append(@, <<ns, id>>), !.pc = "read"])]
    /\ UNCHANGED <<rev, inst, now, ticks, store>>

\* MarkRead stamping the record with the current time
MarkRead_restamped(call, resp) ==
    CASE resp = <<"empty">> -> Complete(call)
      [] resp = Null -> Throw(call, "TypeError")
      [] rev = "id" ->
           [call EXCEPT !.sets = Append(@, [resp[2] EXCEPT !.createdAt = now]),
                        !.pc = "write"]
      [] OTHER ->
           [call EXCEPT
              !.sets = Append(@, [namespace |-> call.ns, key |-> call.id,
                                  value |-> Text([resp[2].text EXCEPT !.createdAt = now])]),
              !.pc = "write"]

\* MarkRead taking a null response for an empty record (response || {})
MarkRead_creates(call, resp) ==
    CASE resp = <<"empty">> -> Complete(call)
      [] resp = Null /\ rev = "id" ->
           [call EXCEPT
              !.sets = Append(@, [namespace |-> call.ns, id |-> call.id,
                                  createdAt |-> 0]),
              !.pc = "write"]
      [] resp = Null ->
           [call EXCEPT
              !.sets = Append(@, [namespace |-> call.ns, key |-> call.id,
                                  value |-> Text([createdAt |-> 0])]),
              !.pc = "write"]
      [] rev = "id" ->
           [call EXCEPT !.sets = Append(@, [resp[2] EXCEPT !.createdAt = 0]),
                        !.pc = "write"]
      [] OTHER ->
           [call EXCEPT
              !.sets = Append(@, [namespace |-> call.ns, key |-> call.id,
                                  value |-> Text([resp[2].text EXCEPT !.createdAt = 0])]),
              !.pc = "write"]

\* the mergeMap of markToRefresh applied to the adapter's response
MarkRead(call, resp) ==
    CASE resp = <<"empty">> -> Complete(call)
      [] resp = Null -> Throw(call, "TypeError")
      [] rev = "id" ->
           [call EXCEPT !.sets = Append(@, [resp[2] EXCEPT !.createdAt = 0]),
                        !.pc = "write"]
      [] OTHER ->
           [call EXCEPT
              !.sets = Append(@, [namespace |-> call.ns, key |-> call.id,
                                  value |-> Text([resp[2].text EXCEPT !.createdAt = 0])]),
              !.pc = "write"]

StorageGetRespondsToMark(c) ==
    /\ calls[c].op = "markToRefresh"
    /\ calls[c].pc = "read"
    /\ \E resp \in ReadResponses(Key(calls[c])) :
          calls' = [calls EXCEPT ![c] = MarkRead(calls[c], resp)]
    /\ UNCHANGED <<rev, inst, now, ticks, store, started>>

\* clear handing only the namespace to the adapter in every revision
CallClear_nsOnly(c) ==
    /\ Ready(c)
    /\ started' = started + 1
    /\ \E a \in Args :
          LET ns == a[1]
              id == a[2]
              c0 == [NoCall EXCEPT !.op = "clear", !.ns = ns, !.id = id]
          IN  calls' = [calls EXCEPT ![c] = Made(
                  IF ns = NoArg THEN Throw(c0, "No namespace provided.")
                  ELSE [c0 EXCEPT !.clears = Append(@, <<ns, NoArg>>),
                                  !.pc = "clear"])]
    /\ UNCHANGED <<rev, inst, now, ticks, store>>

\* clear(args): the id revision hands args to the adapter as they are, the
\* key revisions hand over the namespace only
CallClear(c) ==
    /\ Ready(c)
    /\ started' = started + 1
    /\ \E a \in Args :
          LET ns == a[1]
              id == a[2]
              c0 == [NoCall EXCEPT !.op = "clear", !.ns = ns, !.id = id]
          IN  calls' = [calls EXCEPT ![c] = Made(
                  IF ns = NoArg THEN Throw(c0, "No namespace provided.")
                  ELSE [c0 EXCEPT
                          !.clears = Append(@, IF rev = "id" THEN <<ns, id>>
                                                             ELSE <<ns, NoArg>>),
                          !.pc = "clear"])]
    /\ UNCHANGED <<rev, inst, now, ticks, store>>

\* the adapter's clear: every record of the namespace, or with an id the
\* records of that id only
Cleared(a) ==
    [k \in Keys |->
        IF k[1] = a[1] /\ (a[2] = NoArg \/ k[2] = a[2]) THEN NoRecord ELSE store[k]]

StorageClearResponds(c) ==
    /\ calls[c].pc = "clear"
    /\ store' = Cleared(Last(calls[c].clears))
    /\ calls' = [calls EXCEPT ![c] = Complete(Emit(calls[c], Ack, 1))]
    /\ UNCHANGED <<rev, inst, now, ticks, started>>

\* the adapter's get, del or clear fails for del, markToRefresh or clear:
\* nothing catches the error
StorageFails(c) ==
    /\ calls[c].op \in {"del", "markToRefresh", "clear"}
    /\ calls[c].pc \in {"read", "del", "clear"}
    /\ calls' = [calls EXCEPT ![c] = Throw(calls[c], "storage")]
    /\ UNCHANGED <<rev, inst, now, ticks, store, started>>

-----------------------------------------------------------------------------
(* Specification *)

Next ==
    \/ Tick
    \/ \E c \in Calls : CallGet(c)
    \/ \E c \in Calls : StorageGetResponds(c)
    \/ \E c \in Calls : StorageGetFails(c)
    \/ \E c \in Calls : ClockFaults(c)
    \/ \E c \in Calls : SourceEmits(c)
    \/ \E c \in Calls : SourceFails(c)
    \/ \E c \in Calls : StorageSetAcks(c)
    \/ \E c \in Calls : StorageSetFails(c)
    \/ \E c \in Calls : CallDel(c)
    \/ \E c \in Calls : StorageDelResponds(c)
    \/ \E c \in Calls : CallMarkToRefresh(c)
    \/ \E c \in Calls : StorageGetRespondsToMark(c)
    \/ \E c \in Calls : CallClear(c)
    \/ \E c \in Calls : StorageClearResponds(c)
    \/ \E c \in Calls : StorageFails(c)

Spec == Init /\ [][Next]_vars

-----------------------------------------------------------------------------
(* The encoder on its own *)

\* a string of n bytes
RECURSIVE Repeat(_)
Repeat(n) ==
    IF n = 0 THEN ""
    ELSE LET h == Repeat(n \div 2)
         IN  IF n % 2 = 0 THEN h \o h ELSE h \o h \o "x"

\* the byte lengths of the payloads handed to _gzip, around the thresholds
PayloadLengths == {1, 50, 999, 1000, 1001, 1999, 2000, 2001}

\* the byte lengths of the Buffers handed to _gzip
BufferLengths == {50, 1000, 1001}

\* the values handed to _gzip: strings, Buffers, and a number for the type
\* test
EncoderValues ==
    {Str(Repeat(n)) : n \in PayloadLengths}
        \cup {BufferFrom(Repeat(n)) : n \in BufferLengths}
        \cup {Num(0)}

\* an object, { a: 1 }
Obj == <<"o", "a">>

\* the values handed to _gunzip: an object, a string, a Buffer made from a
\* text, a Buffer of the two bytes 1f 8b, a Buffer that starts with 1f 8b 09,
\* a gzip stream, and a Buffer with the magic that is no gzip stream
DecoderValues ==
    {Obj, Str(Repeat(50)), BufferFrom(Repeat(50)),
     Buffer(<<31, 139>>, ""), Buffer(<<31, 139, 9>>, Repeat(50)),
     Buffer(GzipMagic, Repeat(50)), Buffer(GzipMagic, "")}

\* the values this.options.gzip is given
GzipPolicies ==
    {Undefined, Null, Bool(TRUE), Bool(FALSE), Str("a"), Num(0), Num(1), Num(2)}

InitGzip ==
    /\ rev = "id"
    /\ \E g \in GzipPolicies :
          inst = Constructor("id", [NoOptions EXCEPT !.gzip = g])
    /\ now = StartTime
    /\ ticks = 0
    /\ store = [k \in Keys |-> NoRecord]
    /\ calls = [c \in Calls |-> NoCall]
    /\ started = 0

\* _gzip is called on a record and its Observable is subscribed: the record
\* it emits, or the error it throws, goes to the caller
Encode(c) ==
    /\ Ready(c)
    /\ \E v \in EncoderValues :
          LET c0 == [NoCall EXCEPT !.op = "_gzip", !.ns = "ns", !.id = "k1",
                                   !.opt = inst, !.val = v]
              z  == _gzip([namespace |-> "ns", id |-> "k1", value |-> v])
          IN  calls' = [calls EXCEPT ![c] =
                  IF z.error # "" THEN Throw(c0, z.error)
                  ELSE Complete(Emit(c0, z.data, 1))]
    /\ started' = started + 1
    /\ UNCHANGED <<rev, inst, now, ticks, store>>

\* the record _gzip emitted is handed to _gunzip: the value it emits, or
\* its error
Unzip(c) ==
    /\ calls[c].op = "_gzip"
    /\ calls[c].end = "complete"
    /\ calls[c].seen = "none"
    /\ LET data == calls[c].out[1]
           c1   == [calls[c] EXCEPT !.seen = "decoded"]
       IN  calls' = [calls EXCEPT ![c] =
               IF GunzipError(data) # "" THEN Throw(c1, GunzipError(data))
               ELSE [c1 EXCEPT !.cached = _gunzip(data).value]]
    /\ UNCHANGED <<rev, inst, now, ticks, store, started>>

\* _gunzip is called on a record and its Observable is subscribed
Gunzip(c) ==
    /\ Ready(c)
    /\ \E v \in DecoderValues :
          LET c0   == [NoCall EXCEPT !.op = "_gunzip", !.ns = "ns", !.id = "k1",
                                     !.opt = inst, !.val = v]
              data == [namespace |-> "ns", id |-> "k1", value |-> v]
          IN  calls' = [calls EXCEPT ![c] =
                  IF GunzipError(data) # "" THEN Throw(c0, GunzipError(data))
                  ELSE Complete(Emit(c0, _gunzip(data), 1))]
    /\ started' = started + 1
    /\ UNCHANGED <<rev, inst, now, ticks, store>>

NextGzip ==
    \/ \E c \in Calls : Encode(c)
    \/ \E c \in Calls : Unzip(c)
    \/ \E c \in Calls : Gunzip(c)

SpecGzip == InitGzip /\ [][NextGzip]_vars

-----------------------------------------------------------------------------
(* The driver constructed with json: false *)

\* new CacheDriver({get, set, del, clear, json: false}): the constructor
\* keeps the option, and no method reads it
InitJson ==
    /\ rev = "id"
    /\ inst = Constructor("id", [NoOptions EXCEPT !.json = Bool(FALSE)])
    /\ now = StartTime
    /\ ticks = 0
    /\ store \in InitialStores
    /\ calls = [c \in Calls |-> NoCall]
    /\ started = 0

SpecJson == InitJson /\ [][Next]_vars

-----------------------------------------------------------------------------
(* Properties *)

\* the values a stored record can stand for
CachedValues == SourceValues \cup {Str("cached")}

\* the record stored under key k is what a write-through of value v leaves
Holds(k, v) ==
    /\ store[k] # NoRecord
    /\ IF rev = "id"
       THEN store[k].value \in {Str(JSONstringify(v)),
                                Buffer(GzipMagic, JSONstringify(v))}
       ELSE store[k].text.value = v

\* createdAt of the record stored under key k
CreatedAt(k) == IF rev = "id" THEN store[k].createdAt ELSE store[k].text.createdAt

\* the ttr of a call in milliseconds
TtrMillis(call) == IF rev = "id" THEN call.opt.ttr[2] ELSE call.opt.ttr[2] * 1000

\* every pipeline of the call has ended
Finished(call) == call.pc = "done" /\ call.bg \in {"none", "done"}

\* C1: fresh hit. When the storage read of a get returns a record with
\* now - createdAt < ttr, the call delivers the decoded stored value and
\* completes, has invoked no source and made no storage write, and does
\* neither afterwards.
C1_FreshHit ==
    /\ [][\A c \in Calls : \A v \in CachedValues :
            ( /\ StorageGetResponds(c)
              /\ Holds(Key(calls[c]), v)
              /\ now - CreatedAt(Key(calls[c])) < TtrMillis(calls[c]) )
            => ( /\ calls'[c].out = <<v>>
                 /\ calls'[c].end = "complete"
                 /\ calls'[c].seen = "fresh" )]_vars
    /\ [](\A c \in Calls :
            calls[c].seen = "fresh"
            => ( /\ calls[c].srcs = 0
                 /\ calls[c].sets = <<>>
                 /\ Finished(calls[c])
                 /\ calls[c].bg = "none" ))

\* a get right after another get's write-through of "fresh" was a fresh hit
C1_Witness ==
    \E c \in Calls :
        /\ calls[c].seen = "fresh"
        /\ calls[c].out = <<Str("fresh")>>
        /\ calls[c].srcs = 0

\* the setFilter of the call accepts the value its source emitted
Accepts(call) == ~(call.opt.setFilter = Fn("notSkip") /\ call.val = Str("skip"))

\* the source of the call has emitted a value that is to be written through
Writable(call) == call.val # Undefined /\ Truthy(call.val) /\ Accepts(call)

\* the stored form of value v in the id revision
Payload(v) ==
    IF inst.gzip = Bool(TRUE) THEN Buffer(GzipMagic, JSONstringify(v))
                              ELSE Str(JSONstringify(v))

\* the arguments storage set gets for value v written for a call at time t
Written(call, v, t) ==
    IF rev = "id"
    THEN [namespace |-> call.ns, id |-> call.id, value |-> Payload(v),
          createdAt |-> t,
          ttl |-> call.opt.ttl[2] + ((t + call.opt.ttl[3]) \div 1000)]
    ELSE [namespace |-> call.ns, key |-> call.id,
          value |-> [text |-> [namespace |-> call.ns, key |-> call.id,
                               value |-> v, createdAt |-> t]]]

ValidationErrors ==
    {"No namespace provided.", "No key provided.",
     "Fallback must be a function which returns an Observable.",
     "Fallback must be instance of Observable.",
     "Source must be a function which returns an Observable."}

C3_Miss ==
    /\ [][\A c \in Calls :
            ( /\ SourceEmits(c)
              /\ calls[c].seen = "miss"
              /\ Writable(calls'[c]) )
            => calls'[c].sets = <<Written(calls[c], calls'[c].val, now)>>]_vars
    /\ [](\A c \in Calls :
            (calls[c].op = "get" /\ calls[c].seen = "miss")
            => ( /\ calls[c].srcs = 1
                 /\ Len(calls[c].sets) <= 1
                 /\ Writable(calls[c]) => Len(calls[c].sets) = 1
                 /\ (rev # "id" /\ calls[c].val # Undefined)
                        => calls[c].out = <<calls[c].val>>
                 /\ (rev = "id" /\ calls[c].acks = 1)
                        => calls[c].out = <<calls[c].val>> ))

\* a miss of the id revision with the option ttl: 1 at StartTime: the ttl of
\* the record is the next full second
C3_Witness ==
    \E c \in Calls :
        /\ rev = "id"
        /\ calls[c].seen = "miss"
        /\ calls[c].opt.ttl = Dur(0, 1)
        /\ calls[c].out = <<Str("fresh")>>
        /\ Len(calls[c].sets) = 1
        /\ calls[c].sets[1].createdAt = StartTime
        /\ calls[c].sets[1].ttl = (StartTime + 1) \div 1000

\* C4: a get with the refresh option (forceRefresh in the key revision) that
\* passes validation never calls storage get; it invokes the source once,
\* writes a truthy accepted value through and delivers the source's value.
C4_Refresh ==
    \A c \in Calls :
        ( /\ calls[c].op = "get"
          /\ Truthy(calls[c].opt.refresh)
          /\ calls[c].err \notin ValidationErrors )
        => ( /\ calls[c].gets = <<>>
             /\ calls[c].seen = "none"
             /\ calls[c].srcs = 1
             /\ Writable(calls[c])
                    => calls[c].sets = <<Written(calls[c], calls[c].val, calls[c].at)>>
             /\ (rev # "id" /\ calls[c].val # Undefined)
                    => calls[c].out = <<calls[c].val>>
             /\ (rev = "id" /\ calls[c].acks = 1)
                    => calls[c].out = <<calls[c].val>> )

\* a refresh over a stored fresh record: the source's value is delivered and
\* stored
C4_Witness ==
    \E c \in Calls :
        /\ Truthy(calls[c].opt.refresh)
        /\ calls[c].out = <<Str("fresh")>>
        /\ calls[c].gets = <<>>
        /\ calls[c].wres = "acked"
        /\ Holds(Key(calls[c]), Str("fresh"))
        /\ started = 1
        /\ now = StartTime

\* C5: when setFilter returns false for the value the source produced, the
\* caller still receives that value and the call makes no storage write.
C5_Filtered ==
    \A c \in Calls :
        ( /\ calls[c].op = "get"
          /\ calls[c].val # Undefined
          /\ ~Accepts(calls[c]) )
        => ( /\ calls[c].out = <<calls[c].val>>
             /\ calls[c].end = "complete"
             /\ calls[c].sets = <<>>
             /\ calls[c].wres = "none" )

\* the filter of the tests rejected the value "skip"
C5_Witness ==
    \E c \in Calls :
        /\ calls[c].opt.setFilter = Fn("notSkip")
        /\ calls[c].val = Str("skip")
        /\ calls[c].out = <<Str("skip")>>

\* the pipeline the caller subscribed to is the one that runs the source
Foreground(call) == rev = "id" \/ call.seen # "stale"

\* C6 as stated: every get whose pipeline ran the source and completed has
\* delivered to its caller exactly the value the source emitted.
C6_SourceValueDelivered ==
    \A c \in Calls :
        ( /\ calls[c].op = "get"
          /\ Foreground(calls[c])
          /\ calls[c].val # Undefined
          /\ calls[c].end = "complete" )
        => calls[c].out = <<calls[c].val>>

\* C7 as stated: when the storage write of a get's write-through failed, the
\* caller has received the source's value and no error.
C7_WriteFailureKeepsValue ==
    \A c \in Calls :
        ( /\ calls[c].op = "get"
          /\ Foreground(calls[c])
          /\ calls[c].wres = "failed" )
        => ( /\ calls[c].out = <<calls[c].val>>
             /\ calls[c].end # "error" )

StoredRecord(a) == IF rev = "id" THEN a ELSE a.value

\* calls c and d are gets that both missed on the same key and whose storage
\* writes were both applied
BothMissed(c, d) ==
    /\ c # d
    /\ calls[c].op = "get" /\ calls[d].op = "get"
    /\ calls[c].seen = "miss" /\ calls[d].seen = "miss"
    /\ Key(calls[c]) = Key(calls[d])
    /\ Finished(calls[c]) /\ Finished(calls[d])
    /\ calls[c].wres = "acked" /\ calls[d].wres = "acked"

\* C10 as stated: after two gets that both missed on a key and both wrote,
\* the stored record is the one with the larger createdAt.
C10_Original ==
    \A c, d \in Calls :
        (BothMissed(c, d) /\ calls[c].at < calls[d].at)
        => store[Key(calls[d])] = StoredRecord(Last(calls[d].sets))

\* C10 (amended): two gets that both miss on a key each invoke the source
\* once and each write their own value, stamped with the time of their own
\* write; every write the adapter applies replaces the stored record whatever
\* its createdAt, so the record that remains is the one applied last.
C10_LastAppliedWins ==
    /\ [][\A c \in Calls :
            (StorageSetAcks(c) /\ calls[c].op = "get")
            => store'[Key(calls[c])] = StoredRecord(Last(calls[c].sets))]_vars
    /\ [](\A c, d \in Calls :
            ( /\ c # d
              /\ calls[c].seen = "miss" /\ calls[d].seen = "miss"
              /\ Key(calls[c]) = Key(calls[d]) )
            => ( /\ calls[c].srcs = 1
                 /\ Writable(calls[c])
                        => calls[c].sets = <<Written(calls[c], calls[c].val, calls[c].at)>>
                 /\ BothMissed(c, d)
                        => store[Key(calls[c])] \in
                               {StoredRecord(Last(calls[c].sets)),
                                StoredRecord(Last(calls[d].sets))} ))

\* both missed and wrote, and the record with the smaller createdAt remained
C10_Witness ==
    \E c, d \in Calls :
        /\ BothMissed(c, d)
        /\ calls[c].at < calls[d].at
        /\ store[Key(calls[c])] = StoredRecord(Last(calls[c].sets))

\* calls c and d are gets on the same key that both found nothing usable in
\* the storage: a miss or a stale record
BothRefresh(c, d) ==
    /\ c # d
    /\ calls[c].op = "get" /\ calls[d].op = "get"
    /\ Key(calls[c]) = Key(calls[d])
    /\ calls[c].seen \in {"miss", "stale"}
    /\ calls[d].seen \in {"miss", "stale"}

\* C11: no single-flight. Every get that observes a miss or a stale record
\* invokes the source exactly once itself and makes its own write attempt
\* (one, once its source emitted a truthy value that setFilter accepts),
\* whatever other gets on the same key are in flight; the emission of one
\* call's source changes no other call, and a call that missed delivers
\* nothing before its own source emitted and nothing but its own source's
\* value.
C11_NoSingleFlight ==
    /\ [][\A c, d \in Calls :
            (c # d /\ SourceEmits(c)) => calls'[d] = calls[d]]_vars
    /\ [](\A c \in Calls :
            calls[c].seen \in {"miss", "stale"}
            => ( /\ calls[c].srcs = 1
                 /\ Len(calls[c].sets) <= 1
                 /\ Writable(calls[c]) => Len(calls[c].sets) = 1
                 /\ calls[c].seen = "miss"
                        => \A i \in DOMAIN calls[c].out :
                              /\ calls[c].val # Undefined
                              /\ calls[c].out[i] = calls[c].val ))

\* two gets on one key, a miss or stale hit each, with their two storage
\* writes in flight at the same time after two source invocations
C11_Witness ==
    \E c, d \in Calls :
        /\ BothRefresh(c, d)
        /\ Writing(calls[c]) /\ Writing(calls[d])
        /\ calls[c].srcs = 1 /\ calls[d].srcs = 1
        /\ Len(calls[c].sets) = 1 /\ Len(calls[d].sets) = 1

\* C12: a get (without the refresh option) made after a markToRefresh of its
\* key completed, whose storage read returns the record markToRefresh left
\* (createdAt = 0, so no write came in between), invokes the source, whatever
\* its ttr.
C12_MarkedThenSource ==
    [][\A d \in Calls :
          ( /\ StorageGetResponds(d)
            /\ \E c \in calls[d].prior :
                  /\ calls[c].op = "markToRefresh"
                  /\ Key(calls[c]) = Key(calls[d])
                  /\ calls[c].wres = "acked"
            /\ store[Key(calls[d])] # NoRecord
            /\ CreatedAt(Key(calls[d])) = 0 )
          => calls'[d].srcs = 1]_vars

\* record a is record r with createdAt 0 and every other field as in r
SameButMarked(a, r) ==
    IF rev = "id"
    THEN /\ DOMAIN a = DOMAIN r
         /\ a.namespace = r.namespace
         /\ a.id = r.id
         /\ a.value = r.value
         /\ a.ttl = r.ttl
         /\ a.createdAt = 0
    ELSE /\ DOMAIN a.text = DOMAIN r.text
         /\ a.text.namespace = r.text.namespace
         /\ a.text.key = r.text.key
         /\ a.text.value = r.text.value
         /\ a.text.createdAt = 0

\* C13: when the storage read of markToRefresh returns a record, the call
\* makes one storage write, of that record with createdAt 0 and every other
\* field as read (a compressed value stays compressed); the call makes no
\* other write, no del, no clear and no source invocation, and when the
\* adapter applies the write the key still holds a record, the marked one.
C13_MarkKeepsRecord ==
    /\ [][\A c \in Calls :
            (StorageGetRespondsToMark(c) /\ store[Key(calls[c])] # NoRecord)
            => ( /\ Len(calls'[c].sets) = 1
                 /\ SameButMarked(StoredRecord(calls'[c].sets[1]),
                                  store[Key(calls[c])])
                 /\ store' = store )]_vars
    /\ [][\A c \in Calls :
            (StorageSetAcks(c) /\ calls[c].op = "markToRefresh")
            => ( /\ store'[Key(calls[c])] # NoRecord
                 /\ store'[Key(calls[c])] = StoredRecord(calls[c].sets[1]) )]_vars
    /\ [](\A c \in Calls :
            calls[c].op = "markToRefresh"
            => ( /\ Len(calls[c].sets) <= 1
                 /\ calls[c].dels = <<>>
                 /\ calls[c].clears = <<>>
                 /\ calls[c].srcs = 0 ))

\* a record written compressed by a get was marked: it is stored with
\* createdAt 0 and its value is still the compressed buffer
C13_Witness ==
    \E c \in Calls :
        /\ rev = "id"
        /\ calls[c].op = "markToRefresh"
        /\ calls[c].wres = "acked"
        /\ calls[c].sets[1].value = Buffer(GzipMagic, JSONstringify(Str("fresh")))
        /\ store[Key(calls[c])] = calls[c].sets[1]
        /\ store[Key(calls[c])].createdAt = 0

\* C14: when the storage read of markToRefresh finds no record (the adapter
\* emits nothing, or null), the call ends in that step, completed or failed,
\* without a value, without a storage write and without a change of the
\* storage; a markToRefresh that ended without a write never writes.
C14_MarkMissing ==
    /\ [][\A c \in Calls :
            (StorageGetRespondsToMark(c) /\ store[Key(calls[c])] = NoRecord)
            => ( /\ calls'[c].sets = <<>>
                 /\ calls'[c].pc = "done"
                 /\ calls'[c].end \in {"complete", "error"}
                 /\ calls'[c].out = <<>>
                 /\ store' = store )]_vars
    /\ [][\A c \in Calls :
            (calls[c].op = "markToRefresh" /\ calls[c].pc = "done")
            => calls'[c] = calls[c]]_vars

\* a markToRefresh of a key without a record failed on the adapter's null
\* after its one storage read: nothing was written, the key has no record
C14_Witness ==
    \E c \in Calls :
        /\ calls[c].op = "markToRefresh"
        /\ Len(calls[c].gets) = 1
        /\ calls[c].end = "error"
        /\ calls[c].err = "TypeError"
        /\ calls[c].sets = <<>>
        /\ store[Key(calls[c])] = NoRecord

\* call d was made after a del of its key had completed
AfterDel(d) ==
    \E c \in calls[d].prior :
        /\ calls[c].op = "del"
        /\ calls[c].end = "complete"
        /\ Key(calls[c]) = Key(calls[d])

\* C15: a completed del leaves its key as a key that was never written, and
\* a get made after it (with no write in between) finds nothing, invokes the
\* source once, writes a truthy accepted value through with the time of the
\* write and delivers the source's value: the behaviour of a miss.
C15_DelThenMiss ==
    /\ [][\A c \in Calls :
            StorageDelResponds(c)
            => ( /\ store'[Key(calls[c])] = NoRecord
                 /\ calls'[c].end = "complete" )]_vars
    /\ [][\A d \in Calls :
            ( /\ StorageGetResponds(d)
              /\ AfterDel(d)
              /\ \A e \in Calls : calls[e].wres # "acked" )
            => ( /\ calls'[d].seen = "miss"
                 /\ calls'[d].srcs = 1
                 /\ calls'[d].pc = "source" )]_vars
    /\ [](\A d \in Calls :
            (calls[d].op = "get" /\ AfterDel(d) /\ calls[d].seen = "miss")
            => ( /\ calls[d].srcs = 1
                 /\ Writable(calls[d])
                        => calls[d].sets = <<Written(calls[d], calls[d].val, calls[d].at)>>
                 /\ (rev # "id" /\ calls[d].val # Undefined)
                        => calls[d].out = <<calls[d].val>>
                 /\ (rev = "id" /\ calls[d].acks = 1)
                        => calls[d].out = <<calls[d].val>> ))

\* a get made after a completed del of its key missed, delivered the
\* source's value and stored it
C15_Witness ==
    \E d \in Calls :
        /\ calls[d].op = "get"
        /\ AfterDel(d)
        /\ calls[d].seen = "miss"
        /\ calls[d].out = <<Str("fresh")>>
        /\ calls[d].wres = "acked"
        /\ Holds(Key(calls[d]), Str("fresh"))

NonEmpty(r) ==
    IF rev = "id"
    THEN /\ "value" \in DOMAIN r
         /\ Truthy(r.value)
         /\ Malformed(r.value) \/ Truthy(Decode(<<"value", r>>).value)
    ELSE /\ "value" \in DOMAIN r.text
         /\ Truthy(r.text.value)

\* C17: every record handed to storage set, by the write-through of get or by
\* markToRefresh, carries a non-empty value, and so does every record the
\* storage holds.
C17_NoEmptyValue ==
    /\ \A c \in Calls : \A i \in DOMAIN calls[c].sets :
            NonEmpty(StoredRecord(calls[c].sets[i]))
    /\ \A k \in Keys : store[k] # NoRecord => NonEmpty(store[k])

\* a get wrote a source's value through and a markToRefresh rewrote a record:
\* both writes were applied
C17_Witness ==
    \E c, d \in Calls :
        /\ calls[c].op = "get"
        /\ calls[c].val = Str("fresh")
        /\ Len(calls[c].sets) = 1
        /\ calls[c].wres = "acked"
        /\ calls[d].op = "markToRefresh"
        /\ Len(calls[d].sets) = 1
        /\ calls[d].wres = "acked"

\* the value the source emitted to the call is falsy
FalsyValue(call) == call.val # Undefined /\ ~Truthy(call.val)

\* C18: _set called with a falsy value (the write-through of a get whose
\* source emitted one) calls no storage set and ends without an error. In the
\* id revision, where the caller is subscribed to _set, the caller's stream
\* completes at once without a value; in the key revisions the detached
\* write pipeline just ends.
C18_FalsyNotWritten ==
    /\ [][\A c \in Calls :
            (SourceEmits(c) /\ FalsyValue(calls'[c]) /\ calls[c].pc # "replay")
            => ( /\ calls'[c].sets = <<>>
                 /\ ~Writing(calls'[c])
                 /\ rev = "id" => ( /\ calls'[c].end = "complete"
                                    /\ calls'[c].out = <<>> )
                 /\ rev # "id" => calls'[c].bg = "done" )]_vars
    /\ [](\A c \in Calls :
            FalsyValue(calls[c])
            => ( /\ calls[c].sets = <<>>
                 /\ calls[c].wres = "none"
                 /\ calls[c].err = "" ))

\* a get of the id revision whose source emitted 0: completed, nothing
\* delivered, nothing written
C18_Witness ==
    \E c \in Calls :
        /\ rev = "id"
        /\ calls[c].val = Num(0)
        /\ calls[c].end = "complete"
        /\ calls[c].out = <<>>
        /\ calls[c].sets = <<>>

\* C19: a get made without a namespace, or with a second argument that is not
\* what the revision requires as source, fails in the call itself with a
\* validation error - 'No namespace provided.' when the namespace is missing
\* - and calls neither the storage nor a source, then or later.
C19_GetValidation ==
    /\ [][\A c \in Calls : \A i \in GetInputs :
            ( /\ Ready(c)
              /\ calls'[c] = Made(Get(calls[c], i[1][1], i[1][2], i[2], i[3]))
              /\ (i[1][1] = NoArg \/ ~i[2]) )
            => ( /\ calls'[c].end = "error"
                 /\ calls'[c].err \in ValidationErrors
                 /\ i[1][1] = NoArg => calls'[c].err = "No namespace provided." )]_vars
    /\ [](\A c \in Calls :
            (calls[c].op = "get" /\ calls[c].err \in ValidationErrors)
            => ( /\ calls[c].gets = <<>>
                 /\ calls[c].sets = <<>>
                 /\ calls[c].srcs = 0
                 /\ calls[c].out = <<>>
                 /\ Finished(calls[c]) ))

\* a get of the id revision with complete arguments and something that is
\* not a function as source: failed, no storage call, no source invocation
C19_Witness ==
    \E c \in Calls :
        /\ calls[c].op = "get"
        /\ calls[c].ns = "ns" /\ calls[c].id = "k1"
        /\ calls[c].err = "Source must be a function which returns an Observable."
        /\ calls[c].gets = <<>>
        /\ calls[c].srcs = 0

\* the error for a missing id; the key revisions, whose argument is named
\* key, word it 'No key provided.'
NoIdError == IF rev = "id" THEN "No id provided." ELSE "No key provided."

\* C20: once get, del or markToRefresh was called with a namespace and
\* without an id, the call has failed with 'No id provided.' and has made no
\* storage call.
C20_NoIdFails ==
    \A c \in Calls :
        ( /\ calls[c].op \in {"get", "del", "markToRefresh"}
          /\ calls[c].ns # NoArg
          /\ calls[c].id = NoArg )
        => ( /\ calls[c].end = "error"
             /\ calls[c].err = NoIdError
             /\ calls[c].gets = <<>>
             /\ calls[c].sets = <<>>
             /\ calls[c].dels = <<>> )

C22_ReadFailureThrows ==
    /\ [][\A c \in Calls :
            (StorageGetFails(c) /\ rev # "ops")
            => ( /\ calls'[c].end = "error"
                 /\ calls'[c].err = "storage get"
                 /\ calls'[c].out = <<>>
                 /\ calls'[c].srcs = 0
                 /\ calls'[c].sets = <<>>
                 /\ Finished(calls'[c]) )]_vars
    /\ [][\A c \in Calls :
            calls[c].err = "storage get" => calls'[c] = calls[c]]_vars

\* a get of the id revision failed with the error of the storage read
C22_Witness ==
    \E c \in Calls :
        /\ rev = "id"
        /\ calls[c].op = "get"
        /\ Len(calls[c].gets) = 1
        /\ calls[c].err = "storage get"
        /\ calls[c].srcs = 0
        /\ calls[c].sets = <<>>

\* C23, for the revisions that detach the refresh of a stale hit (key and
\* ops; the caller of the id revision waits for the refresh, see C8): the
\* caller receives the cached value and completion and never an error,
\* whatever the source and the storage write of the refresh do; and with
\* onError configured, a failure of the source or of the storage write of the
\* refresh is reported to it.
C23_RefreshFailureHidden ==
    /\ [](\A c \in Calls :
            (rev # "id" /\ calls[c].seen = "stale")
            => ( /\ calls[c].end # "error"
                 /\ Finished(calls[c])
                        => ( /\ calls[c].out = <<calls[c].cached>>
                             /\ calls[c].end = "complete" ) ))
    /\ [][\A c \in Calls :
            ( /\ SourceFails(c) \/ StorageSetFails(c)
              /\ rev # "id"
              /\ calls[c].seen = "stale"
              /\ inst.onError[1] = "f" )
            => Len(calls'[c].reports) = Len(calls[c].reports) + 1]_vars

C25_MalformedGzip ==
    /\ [][\A c \in Calls :
            ( /\ StorageGetResponds(c)
              /\ rev = "id"
              /\ store[Key(calls[c])] # NoRecord
              /\ Malformed(store[Key(calls[c])].value) )
            => ( /\ calls'[c].end = "error"
                 /\ calls'[c].err = "incorrect header check"
                 /\ calls'[c].seen = "none"
                 /\ calls'[c].out = <<>>
                 /\ calls'[c].srcs = 0
                 /\ calls'[c].sets = <<>>
                 /\ Finished(calls'[c]) )]_vars
    /\ [][\A c \in Calls :
            calls[c].err = "incorrect header check" => calls'[c] = calls[c]]_vars

\* a get on the malformed record failed with the decompression error
C25_Witness ==
    \E c \in Calls :
        /\ rev = "id"
        /\ calls[c].op = "get"
        /\ Len(calls[c].gets) = 1
        /\ calls[c].err = "incorrect header check"
        /\ calls[c].srcs = 0
        /\ Malformed(store[Key(calls[c])].value)

\* the number of times error e was handed to onError for the call
Reported(call, e) ==
    Cardinality({i \in 1 .. Len(call.reports) : call.reports[i] = e})

\* C26: in the operations/onError revision with an onError hook, a failure
\* of the storage write of _set (the write-through of a get; markToRefresh
\* writes without _set) is handed to onError in that step, _set ends there
\* (nothing is stored, nothing and no error reaches the caller through it),
\* and a write that failed has been reported exactly once at any later time.
C26_WriteFailureReported ==
    /\ [][\A c \in Calls :
            ( /\ StorageSetFails(c)
              /\ rev = "ops"
              /\ calls[c].op = "get"
              /\ inst.onError[1] = "f" )
            => ( /\ calls'[c].reports = Append(calls[c].reports, "storage set")
                 /\ calls'[c].bg = "done"
                 /\ calls'[c].out = calls[c].out
                 /\ calls'[c].end = calls[c].end
                 /\ calls'[c].err = calls[c].err
                 /\ calls'[c].acks = 0
                 /\ store' = store )]_vars
    /\ [](\A c \in Calls :
            (rev = "ops" /\ calls[c].op = "get" /\ inst.onError[1] = "f")
            => ( /\ Reported(calls[c], "storage set")
                      = (IF calls[c].wres = "failed" THEN 1 ELSE 0)
                 /\ calls[c].err # "storage set" ))

\* the write-through of a miss failed: the caller has the fresh value and a
\* completion, the hook has the error once
C26_Witness ==
    \E c \in Calls :
        /\ rev = "ops"
        /\ inst.onError[1] = "f"
        /\ calls[c].wres = "failed"
        /\ calls[c].reports = <<"storage set">>
        /\ calls[c].out = <<Str("fresh")>>
        /\ calls[c].end = "complete"
        /\ Finished(calls[c])

\* C27: the instance's options never change, whatever per-call options a
\* get is given (a setFilter that is not a function is replaced in the call's
\* merged view only); they stay what the constructor left, every get decides
\* with the per-call options merged over them, and so a get without options
\* behaves per the instance defaults: it writes a value that an earlier
\* call's setFilter rejected.
C27_InstanceOptionsKept ==
    /\ [][inst' = inst]_vars
    /\ [](\E o \in CtorOptions(rev) : inst = Constructor(rev, o))
    /\ [][\A c \in Calls :
            (CallGet(c) /\ calls'[c].op = "get")
            => \E o \in GetOptions(rev) :
                  calls'[c].opt = (IF rev = "ops" THEN inst ELSE Merge(inst, o))]_vars
    /\ [](\A c \in Calls :
            ( /\ rev = "id"
              /\ calls[c].op = "get"
              /\ calls[c].val # Undefined
              /\ calls[c].opt.setFilter # Fn("notSkip") )
            => ( /\ calls[c].opt.setFilter = inst.setFilter
                 /\ Truthy(calls[c].val) => Len(calls[c].sets) = 1 ))

\* a get with a per-call setFilter dropped "skip" and ended; a later get
\* without options wrote "skip", as the instance's setFilter allows
C27_Witness ==
    \E c, d \in Calls :
        /\ rev = "id"
        /\ c \in calls[d].prior
        /\ calls[c].opt.setFilter = Fn("notSkip")
        /\ calls[c].val = Str("skip")
        /\ calls[c].sets = <<>>
        /\ calls[d].op = "get"
        /\ calls[d].opt = inst
        /\ calls[d].val = Str("skip")
        /\ Len(calls[d].sets) = 1
        /\ Finished(calls[d])

\* C28: a get that does not override ttr decides staleness with the ttr
\* given to the constructor: where the constructor was given a ttr, a record
\* at least that old is not served as a fresh hit.
C28_ConstructorTtr ==
    [][\A c \in Calls : \A o \in CtorOptions(rev) :
          ( /\ inst = Constructor(rev, o)
            /\ o.ttr # Undefined
            /\ StorageGetResponds(c)
            /\ calls[c].opt.ttr = inst.ttr
            /\ store[Key(calls[c])] # NoRecord
            /\ now - CreatedAt(Key(calls[c])) >= o.ttr[2] )
          => calls'[c].seen # "fresh"]_vars

\* C29: per-call gzip: true yields a compressed stored value: the write of
\* a get of the id revision whose merged options have gzip = true carries a
\* Buffer with the gzip magic.
C29_PerCallGzip ==
    \A c \in Calls :
        ( /\ rev = "id"
          /\ calls[c].op = "get"
          /\ calls[c].opt.gzip = Bool(TRUE)
          /\ calls[c].sets # <<>> )
        => HasMagic(calls[c].sets[1].value)

\* the record _gzip emitted for the call
Encoded(call) == call.out[1]

\* C30: the encoder's policy. For a string payload, gzip = true always
\* compresses; false and anything that is neither boolean nor number never
\* does; a number compresses exactly when the byte length is strictly
\* greater than gzip * 1000. A compressed value starts with the gzip magic
\* and inflates to the payload, an uncompressed one is the payload; no other
\* field of the record changes.
C30_GzipPolicy ==
    \A c \in Calls :
        (calls[c].op = "_gzip" /\ calls[c].val[1] = "s")
        => LET g    == inst.gzip
               v    == calls[c].val
               z    == Encoded(calls[c])
               must == CASE g = Bool(TRUE) -> TRUE
                         [] g[1] = "n"     -> Len(v[2]) > g[2] * 1000
                         [] OTHER          -> FALSE
           IN  /\ calls[c].end = "complete"
               /\ Len(calls[c].out) = 1
               /\ z.namespace = "ns" /\ z.id = "k1"
               /\ HasMagic(z.value) <=> must
               /\ _gunzip(z).value = v
               /\ ~must => z.value = v

\* with gzip = 1, a payload of exactly 1000 bytes was left as it is and one
\* of 1001 bytes was compressed
C30_Witness ==
    \E c, d \in Calls :
        /\ inst.gzip = Num(1)
        /\ calls[c].op = "_gzip"
        /\ calls[c].val[1] = "s"
        /\ Len(calls[c].val[2]) = 1000
        /\ Encoded(calls[c]).value = calls[c].val
        /\ calls[d].op = "_gzip"
        /\ calls[d].val[1] = "s"
        /\ Len(calls[d].val[2]) = 1001
        /\ HasMagic(Encoded(calls[d]).value)

\* C31: round trip. Whenever the record _gzip emitted for a string or a
\* Buffer has been handed to _gunzip, _gunzip has emitted the value _gzip was
\* given.
C31_RoundTrip ==
    \A c \in Calls :
        (calls[c].op = "_gzip" /\ calls[c].seen = "decoded")
        => ( /\ calls[c].end = "complete"
             /\ calls[c].cached = calls[c].val )

\* the payload is a Buffer whose first three bytes are 0x1F 0x8B 0x08
Sniffed(v) == v[1] = "b" /\ Len(v[2]) >= 3 /\ SubSeq(v[2], 1, 3) = <<31, 139, 8>>

\* C32: the decoder is policy-free. Under every gzip option, _gunzip hands
\* a Buffer of at least three bytes starting with 0x1F 0x8B 0x08 to
\* zlib.gunzip (it emits the inflated text, or fails with the error of
\* zlib.gunzip), and emits every other record (object, string, other Buffer)
\* unchanged.
C32_DecoderPolicyFree ==
    \A c \in Calls :
        calls[c].op = "_gunzip"
        => LET v == calls[c].val
           IN  IF Sniffed(v)
               THEN \/ /\ calls[c].end = "complete"
                       /\ Len(calls[c].out) = 1
                       /\ calls[c].out[1] =
                              [namespace |-> "ns", id |-> "k1", value |-> Str(v[3])]
                    \/ /\ calls[c].end = "error"
                       /\ calls[c].err = "incorrect header check"
                       /\ calls[c].out = <<>>
               ELSE /\ calls[c].end = "complete"
                    /\ Len(calls[c].out) = 1
                    /\ calls[c].out[1] =
                           [namespace |-> "ns", id |-> "k1", value |-> v]

\* with gzip = false a gzip stream was inflated, and with it a Buffer that
\* starts with 1f 8b 09 was emitted as it is
C32_Witness ==
    \E c, d \in Calls :
        /\ inst.gzip = Bool(FALSE)
        /\ calls[c].op = "_gunzip"
        /\ calls[c].val = Buffer(GzipMagic, Repeat(50))
        /\ calls[c].out[1].value = Str(Repeat(50))
        /\ calls[d].op = "_gunzip"
        /\ calls[d].val = Buffer(<<31, 139, 9>>, Repeat(50))
        /\ calls[d].out[1].value = calls[d].val

\* C33: with options.json = false the value goes to storage as given and
\* comes back as stored: the storage write of a get carries the value the
\* source emitted, and a hit on a stored string delivers that string.
C33_NoJson ==
    /\ [](\A c \in Calls :
            ( /\ inst.json = Bool(FALSE)
              /\ calls[c].op = "get"
              /\ calls[c].sets # <<>> )
            => calls[c].sets[1].value = calls[c].val)
    /\ [][\A c \in Calls :
            ( /\ inst.json = Bool(FALSE)
              /\ StorageGetResponds(c)
              /\ store[Key(calls[c])] # NoRecord
              /\ store[Key(calls[c])].value[1] = "s"
              /\ calls'[c].seen = "fresh" )
            => calls'[c].out = <<store[Key(calls[c])].value>>]_vars

\* C34: every get invokes the source at most once and makes at most one
\* storage write attempt, whatever path it takes (fresh hit, stale hit, miss,
\* refresh, error fallback), and a get whose pipelines have all ended does
\* nothing more.
C34_AtMostOnce ==
    /\ [](\A c \in Calls :
            calls[c].op = "get"
            => ( /\ calls[c].srcs <= 1
                 /\ Len(calls[c].sets) <= 1
                 /\ Len(calls[c].gets) <= 1 ))
    /\ [][\A c \in Calls :
            (calls[c].op = "get" /\ Finished(calls[c]))
            => calls'[c] = calls[c]]_vars

\* error fallback: the source of a get of the ops revision failed, the error
\* was reported and replayed to the caller, and the source was invoked once
C34_Witness ==
    \E c \in Calls :
        /\ rev = "ops"
        /\ calls[c].op = "get"
        /\ calls[c].reports = <<"source">>
        /\ calls[c].end = "error"
        /\ calls[c].srcs = 1
        /\ calls[c].sets = <<>>
        /\ Finished(calls[c])

\* C35: in the id revision a get that writes delivers the source's value
\* only after the write was acknowledged: a caller that has the value finds
\* the write acknowledged, at the delivery the storage holds the record that
\* was written, and a get of the same key made after it, with ttr > 0, the
\* clock unchanged and the record untouched, is a fresh hit on that value.
C35_EmitAfterAck ==
    /\ [](\A c \in Calls :
            ( /\ rev = "id"
              /\ calls[c].op = "get"
              /\ calls[c].sets # <<>>
              /\ calls[c].out # <<>> )
            => ( /\ calls[c].wres = "acked"
                 /\ calls[c].out[1] = calls[c].val ))
    /\ [][\A c \in Calls :
            ( /\ rev = "id"
              /\ calls[c].op = "get"
              /\ calls[c].sets # <<>>
              /\ calls[c].out = <<>>
              /\ calls'[c].out # <<>> )
            => store'[Key(calls[c])] = calls[c].sets[1]]_vars
    /\ [][\A c, d \in Calls :
            ( /\ rev = "id"
              /\ StorageGetResponds(d)
              /\ c \in calls[d].prior
              /\ calls[c].op = "get"
              /\ calls[c].sets # <<>>
              /\ calls[c].out # <<>>
              /\ Key(calls[c]) = Key(calls[d])
              /\ store[Key(calls[d])] = calls[c].sets[1]
              /\ now = calls[c].at
              /\ calls[d].opt.ttr[2] > 0 )
            => ( /\ calls'[d].seen = "fresh"
                 /\ calls'[d].out = <<calls[c].val>>
                 /\ calls'[d].srcs = 0
                 /\ calls'[d].sets = <<>> )]_vars

\* a get wrote "skip" through and delivered it; the get made after it found
\* it fresh
C35_Witness ==
    \E c, d \in Calls :
        /\ rev = "id"
        /\ c \in calls[d].prior
        /\ calls[c].op = "get"
        /\ calls[c].wres = "acked"
        /\ calls[c].out = <<Str("skip")>>
        /\ calls[d].op = "get"
        /\ calls[d].seen = "fresh"
        /\ calls[d].out = <<Str("skip")>>
        /\ now = calls[c].at

\* the value a stored record stands for, in its stored form
RecValue(r) == IF rev = "id" THEN r.value ELSE r.text.value

\* C36 as stated: the write of markToRefresh never replaces the value the
\* storage holds at that moment, so a write-through that landed after
\* markToRefresh's read survives it.
C36_Original ==
    [][\A c \in Calls :
          ( /\ StorageSetAcks(c)
            /\ calls[c].op = "markToRefresh"
            /\ store[Key(calls[c])] # NoRecord )
          => RecValue(store'[Key(calls[c])]) = RecValue(store[Key(calls[c])])]_vars

\* C36: the write of markToRefresh stores the record markToRefresh read,
\* with createdAt 0, whatever the storage holds at the write: when nothing
\* was written for the key since the read, only createdAt changes; a
\* write-through that landed in between is replaced by the older record
\* (the last write wins).
C36_MarkWritesWhatItRead ==
    /\ [][\A c \in Calls :
            (StorageGetRespondsToMark(c) /\ calls'[c].pc = "write")
            => RecValue(StoredRecord(calls'[c].sets[1]))
                  = RecValue(store[Key(calls[c])])]_vars
    /\ [][\A c \in Calls :
            (StorageSetAcks(c) /\ calls[c].op = "markToRefresh")
            => ( /\ store'[Key(calls[c])] = StoredRecord(calls[c].sets[1])
                 /\ \A k \in Keys \ {Key(calls[c])} : store'[k] = store[k]
                 /\ ( /\ store[Key(calls[c])] # NoRecord
                      /\ RecValue(store[Key(calls[c])])
                            = RecValue(StoredRecord(calls[c].sets[1])) )
                    => SameButMarked(store'[Key(calls[c])],
                                     store[Key(calls[c])]) )]_vars

\* the write-through of a get landed between the read and the write of
\* markToRefresh: the get delivered "fresh" and the storage holds the older
\* value again, marked
C36_Witness ==
    \E c, d \in Calls :
        /\ calls[c].op = "markToRefresh"
        /\ calls[c].wres = "acked"
        /\ calls[d].op = "get"
        /\ calls[d].wres = "acked"
        /\ calls[d].val = Str("fresh")
        /\ Key(calls[c]) = Key(calls[d])
        /\ Holds(Key(calls[c]), Str("cached"))
        /\ CreatedAt(Key(calls[c])) = 0

\* C37 as stated: after a completed del of a key, a storage write that
\* re-creates the absent record is the write of a get made after the del.
C37_Original ==
    [][\A c, d \in Calls :
          ( /\ StorageSetAcks(d)
            /\ calls[c].op = "del"
            /\ calls[c].end = "complete"
            /\ Key(calls[c]) = Key(calls[d])
            /\ store[Key(calls[d])] = NoRecord )
          => ( /\ calls[d].op = "get"
               /\ c \in calls[d].prior )]_vars

\* C37: del leaves its key absent and touches nothing else, not the writes
\* in flight; an absent key stays absent until a storage write for that key
\* is applied, and the write that re-creates the record after a completed
\* del belongs to a get made after the del or to a get or markToRefresh that
\* was in flight when the del was made.
C37_AbsentUntilWritten ==
    /\ [][\A c \in Calls :
            StorageDelResponds(c)
            => ( /\ store'[Last(calls[c].dels)] = NoRecord
                 /\ \A d \in Calls \ {c} : calls'[d] = calls[d] )]_vars
    /\ [][\A k \in Keys :
            (store[k] = NoRecord /\ store'[k] # NoRecord)
            => \E d \in Calls :
                  /\ StorageSetAcks(d)
                  /\ Key(calls[d]) = k
                  /\ store'[k] = StoredRecord(Last(calls[d].sets))]_vars
    /\ [][\A c, d \in Calls :
            ( /\ StorageSetAcks(d)
              /\ calls[c].op = "del"
              /\ calls[c].end = "complete"
              /\ Key(calls[c]) = Key(calls[d])
              /\ store[Key(calls[d])] = NoRecord )
            => ( /\ calls[d].op \in {"get", "markToRefresh"}
                 /\ c \in calls[d].prior \/ d \in Calls \ calls[c].prior )]_vars

\* a get was in flight when del was made and completed; its write-through
\* landed after the del and the key holds its record
C37_Witness ==
    \E c, d \in Calls :
        /\ calls[c].op = "del"
        /\ calls[c].end = "complete"
        /\ calls[d].op = "get"
        /\ c \notin calls[d].prior
        /\ d \notin calls[c].prior
        /\ Key(calls[c]) = Key(calls[d])
        /\ calls[d].wres = "acked"
        /\ Finished(calls[d])
        /\ calls[d].dels = <<>>
        /\ store[Key(calls[d])] = StoredRecord(calls[d].sets[1])

\* the key the arguments of a storage set name
SetKey(a) == IF rev = "id" THEN <<a.namespace, a.id>> ELSE <<a.namespace, a.key>>

\* C38: key isolation. Every storage read, write and del of a get, del or
\* markToRefresh names the key of the call; get and markToRefresh call
\* neither del nor clear, del calls no clear; and a step in which the record
\* of a key changes is the storage write or del of a call for that key, or
\* the clear of a clear call.
C38_KeyIsolation ==
    /\ [](\A c \in Calls :
            calls[c].op \in {"get", "del", "markToRefresh"}
            => ( /\ \A i \in 1 .. Len(calls[c].gets) : calls[c].gets[i] = Key(calls[c])
                 /\ \A i \in 1 .. Len(calls[c].sets) : SetKey(calls[c].sets[i]) = Key(calls[c])
                 /\ \A i \in 1 .. Len(calls[c].dels) : calls[c].dels[i] = Key(calls[c])
                 /\ calls[c].clears = <<>>
                 /\ calls[c].op # "del" => calls[c].dels = <<>> ))
    /\ [][\A k \in Keys :
            store'[k] # store[k]
            => \E c \in Calls :
                  \/ /\ calls[c].op = "clear"
                     /\ StorageClearResponds(c)
                  \/ /\ calls[c].op \in {"get", "markToRefresh"}
                     /\ Key(calls[c]) = k
                     /\ StorageSetAcks(c)
                  \/ /\ calls[c].op = "del"
                     /\ Key(calls[c]) = k
                     /\ StorageDelResponds(c)]_vars

\* a get wrote the first key and a del removed it again; the record of the
\* second key is the one the storage held at construction
C38_Witness ==
    \E c, d \in Calls :
        /\ calls[c].op = "get"
        /\ calls[c].wres = "acked"
        /\ calls[d].op = "del"
        /\ calls[d].end = "complete"
        /\ c \in calls[d].prior
        /\ Key(calls[c]) = <<"ns", "k1">>
        /\ Key(calls[d]) = <<"ns", "k1">>
        /\ store[<<"ns", "k1">>] = NoRecord
        /\ store[<<"ns", "k2">>] = Cached("k2")

====
